---- MODULE Spec2Model ----
(***************************************************************************)
(* Model of ml_wrappers/model/image_model_wrapper.py: the image-model      *)
(* wrapper factory _wrap_image_model and the four adapter classes it       *)
(* constructs.                                                             *)
(*                                                                         *)
(* Python objects are records with a cls field (the class) and one field   *)
(* per attribute.  A type name is the sequence of the dotted components    *)
(* of str(type(obj)), so that the suffix tests of the source are computed  *)
(* and not assumed.  numpy arrays are records [shape, data, dtype] with    *)
(* the data in row-major order.  Probabilities, scores and thresholds are  *)
(* integers in percent.                                                    *)
(***************************************************************************)
EXTENDS Integers, Sequences, FiniteSets

VARIABLES
    env,        \* which guarded module-level imports succeeded, and whether cuda is available
    pc,         \* "idle" | "wrapped" (factory called) | "constructed" | "failed"
    call,       \* arguments of the _wrap_image_model call
    ret,        \* what that call returned or raised
    adapter,    \* the adapter object under use (adapter specification)
    evalCalls,  \* number of model.eval() invocations on the native model
    deviceSelections, \* number of torch.device(...) selections
    held,       \* the dataset the caller currently holds
    lastPredict, \* argument and outcome of the last predict call on held
    lastProba   \* argument and outcome of the last predict_proba call on held

vars == <<env, pc, call, ret, adapter, evalCalls, deviceSelections,
          held, lastPredict, lastProba>>

-----------------------------------------------------------------------------
(* Sequences helpers *)

\* s.endswith(suffix) on component sequences
EndsWith(s, suffix) ==
    /\ Len(suffix) <= Len(s)
    /\ SubSeq(s, Len(s) - Len(suffix) + 1, Len(s)) = suffix

-----------------------------------------------------------------------------
(* Module-level state: lines 23-42 *)

\* "none": torch failed to import (torch, nn, torchvision, ToTensor unbound)
\* "torchOnly": torch and nn bound, torchvision failed (torchvision, ToTensor unbound)
\* "all": every import succeeded
Envs == {"none", "torchOnly", "all"}

TorchBound(e) == e \in {"torchOnly", "all"}
TorchvisionBound(e) == e = "all"

FASTAI_MODEL_SUFFIX == <<"fastai", "learner", "Learner">>

MLFLOW_AUTOML_SUFFIX ==
    <<"azureml", "automl", "dnn", "vision", "common", "mlflow",
      "mlflow_model_wrapper", "MLFlowImagesModelWrapper">>

\* ModelTask members used by the factory, and one task outside the image tasks
IMAGE_CLASSIFICATION == "image_classification"
MULTILABEL_IMAGE_CLASSIFICATION == "multilabel_image_classification"
OBJECT_DETECTION == "object_detection"
ModelTasks ==
    {IMAGE_CLASSIFICATION, MULTILABEL_IMAGE_CLASSIFICATION, OBJECT_DETECTION,
     "text_classification"}

-----------------------------------------------------------------------------
(* The objects a caller can pass *)

None == [cls |-> "None"]

FastaiLearnerType == <<"fastai", "learner", "Learner">>
VendoredLearnerType == <<"vendor", "fastai", "learner", "Learner">>
PlainModelType == <<"transformers", "pipelines", "Pipeline">>
WrappedPytorchModelType ==
    <<"ml_wrappers", "model", "pytorch_wrapper", "WrappedPytorchModel">>

\* _model_impl of a user model: absent, present without a python_model
\* attribute, or present with a python_model of the given type
ModelImpls == {"absent", "noPythonModel", "otherPythonModel", "automlPythonModel"}

PythonModelType(impl) ==
    IF impl = "automlPythonModel"
    THEN MLFLOW_AUTOML_SUFFIX
    ELSE <<"mlflow", "pyfunc", "model", "PythonModel">>

\* learner: what the native predict returns as discrete prediction per image
\* ("single": a 0-d class index, "multi": a boolean vector per class)
UserModels ==
    [cls : {"UserModel"},
     typeName : {FastaiLearnerType, VendoredLearnerType, PlainModelType},
     isModule : BOOLEAN,
     impl : ModelImpls,
     hasEval : BOOLEAN,
     learner : {"single", "multi"}]

TypeName(obj) ==
    IF obj.cls = "UserModel" THEN obj.typeName
    ELSE IF obj.cls = "WrappedPytorchModel" THEN WrappedPytorchModelType
    ELSE <<"ml_wrappers", "model", "image_model_wrapper", obj.cls>>

\* hasattr(obj, '_model_impl')
HasModelImpl(obj) == obj.cls = "UserModel" /\ obj.impl # "absent"

\* isinstance(obj, nn.Module)
IsNnModule(obj) == obj.cls = "UserModel" /\ obj.isModule

Examples == [cls : {"Examples"}, isDatasetWrapper : BOOLEAN]

-----------------------------------------------------------------------------
(* Outcomes of calls and of the factory *)

Errors == {"NameError", "AttributeError", "TypeError"}

Return(v, t) == [status |-> "return", value |-> v, task |-> t,
                 error |-> "", site |-> ""]
Raise(e, s) == [status |-> "raise", value |-> None, task |-> "",
                error |-> e, site |-> s]
NoRet == [status |-> "none", value |-> None, task |-> "", error |-> "", site |-> ""]

-----------------------------------------------------------------------------
(* Collaborators imported at lines 13-17 (constructors storing their arguments) *)

WrappedPytorchModel(model, image_to_tensor) ==
    [cls |-> "WrappedPytorchModel", _model |-> model,
     _image_to_tensor |-> image_to_tensor]

DatasetWrapper(examples) == [examples EXCEPT !.isDatasetWrapper = TRUE]

WrappedClassificationModel(model, eval_function, examples) ==
    [cls |-> "WrappedClassificationModel", _model |-> model,
     _eval_function |-> eval_function, _examples |-> examples]

-----------------------------------------------------------------------------
(* Adapter constructors *)

\* lines 113-115
WrappedTransformerImageClassificationModel(model) ==
    [cls |-> "WrappedTransformerImageClassificationModel", _model |-> model]

\* lines 141-150
WrappedFastAIImageClassificationModel(model, multilabel) ==
    [cls |-> "WrappedFastAIImageClassificationModel", _model |-> model,
     _multilabel |-> multilabel]

\* lines 207-213
WrappedMlflowAutomlImagesClassificationModel(model) ==
    [cls |-> "WrappedMlflowAutomlImagesClassificationModel", _model |-> model]

\* model.eval exists
HasEval(obj) == obj.cls = "UserModel" /\ obj.hasEval

\* lines 252-262: the device is selected first, then the model is stored and
\* switched to evaluation mode.  out is the constructed object or the error;
\* devices and evals count the torch.device and model.eval() calls made.
WrappedObjectDetectionModel(model, e) ==
    IF ~TorchBound(e.imports)
    THEN [out |-> Raise("NameError", "torch.device"), devices |-> 0, evals |-> 0]
    ELSE IF ~HasEval(model)
    THEN [out |-> Raise("AttributeError", "model.eval"), devices |-> 1, evals |-> 0]
    ELSE [out |-> Return([cls |-> "WrappedObjectDetectionModel",
                          _device |-> IF e.cuda THEN "cuda" ELSE "cpu",
                          _model |-> model], ""),
          devices |-> 1, evals |-> 1]

AdapterClasses ==
    {"WrappedTransformerImageClassificationModel",
     "WrappedFastAIImageClassificationModel",
     "WrappedMlflowAutomlImagesClassificationModel",
     "WrappedObjectDetectionModel"}

-----------------------------------------------------------------------------
(* The factory: lines 45-107 *)

\* lines 45-53
_is_fastai_model(model) == EndsWith(TypeName(model), FASTAI_MODEL_SUFFIX)

\* What the collaborators called in the framework-native step do on this call:
\* all succeed and _eval_model resolves a domain, or the named one raises.
NativeSites == {"WrappedPytorchModel", "DatasetWrapper", "_eval_model"}
EvalDomains == {"classification", "regression"}
ProbeOutcomes ==
    [failAt : {"none"}, error : {""}, domain : EvalDomains]
    \cup [failAt : NativeSites, error : Errors, domain : {"classification"}]

\* line 86 with AttributeError left out of the except clause
CaughtErrorsNameErrorOnly == {"NameError"}

\* line 86
CaughtErrors == {"NameError", "AttributeError"}

\* An exception raised at site inside the try block of lines 76-89, with the
\* value the local variable model holds at that moment
TryFailure(site, err, model) ==
    IF err \in CaughtErrors
    THEN [kind |-> "fallthrough", model |-> model, out |-> NoRet,
          site |-> site, error |-> err]
    ELSE [kind |-> "raise", model |-> model, out |-> Raise(err, site),
          site |-> site, error |-> err]

\* lines 76-89: the framework-native step.  kind "return": line 82 returned;
\* "raise": an exception left the try block; "fallthrough": control reaches
\* line 91 with the local variable model as given.
NativeStep(model, examples, model_task, e, probe) ==
    IF ~TorchBound(e.imports)
    THEN TryFailure("isinstance", "NameError", model)
    ELSE IF ~IsNnModule(model)
    THEN [kind |-> "fallthrough", model |-> model, out |-> NoRet,
          site |-> "", error |-> ""]
    ELSE IF probe.failAt = "WrappedPytorchModel"
    THEN TryFailure("WrappedPytorchModel", probe.error, model)
    ELSE LET model1 == WrappedPytorchModel(model, TRUE) IN
         IF probe.failAt = "DatasetWrapper" /\ ~examples.isDatasetWrapper
         THEN TryFailure("DatasetWrapper", probe.error, model1)
         ELSE LET examples1 == IF examples.isDatasetWrapper
                               THEN examples
                               ELSE DatasetWrapper(examples) IN
              IF probe.failAt = "_eval_model"
              THEN TryFailure("_eval_model", probe.error, model1)
              ELSE [kind |-> "return", model |-> model1,
                    out |-> Return(WrappedClassificationModel(
                                       model1, "eval_function", examples1),
                                   probe.domain),
                    site |-> "", error |-> ""]

\* lines 91-99 with the final else branch (lines 98-99) left out
DetectionChainNoDefault(model, _wrapped_model) ==
    IF _is_fastai_model(model)
    THEN Return(WrappedFastAIImageClassificationModel(model, FALSE), "")
    ELSE IF HasModelImpl(model)
    THEN IF model.impl = "noPythonModel"
         THEN Raise("AttributeError", "python_model")
         ELSE IF EndsWith(PythonModelType(model.impl), MLFLOW_AUTOML_SUFFIX)
         THEN Return(WrappedMlflowAutomlImagesClassificationModel(model), "")
         ELSE Return(_wrapped_model, "")
    ELSE Return(_wrapped_model, "")

\* lines 91-99: model is the local variable at line 91, _wrapped_model the
\* value assigned at line 74
DetectionChain(model, _wrapped_model) ==
    IF _is_fastai_model(model)
    THEN Return(WrappedFastAIImageClassificationModel(model, FALSE), "")
    ELSE IF HasModelImpl(model)
    THEN IF model.impl = "noPythonModel"
         THEN Raise("AttributeError", "python_model")
         ELSE IF EndsWith(PythonModelType(model.impl), MLFLOW_AUTOML_SUFFIX)
         THEN Return(WrappedMlflowAutomlImagesClassificationModel(model), "")
         ELSE Return(_wrapped_model, "")
    ELSE Return(WrappedTransformerImageClassificationModel(model), "")

NoEffects(out, native) ==
    [out |-> out, native |-> native, devices |-> 0, evals |-> 0]

NoNative == [kind |-> "skipped", site |-> "", error |-> ""]

\* lines 56-107.  out: what the caller gets; native: how the framework-native
\* step ended; devices, evals: the side effects of the adapter constructor.
_wrap_image_model(model, examples, model_task, e, probe) ==
    IF model_task = IMAGE_CLASSIFICATION
    THEN LET step == NativeStep(model, examples, model_task, e, probe)
             native == [kind |-> step.kind, site |-> step.site,
                        error |-> step.error]
         IN IF step.kind \in {"return", "raise"}
            THEN NoEffects(step.out, native)
            ELSE LET chain == DetectionChain(step.model, model) IN
                 IF chain.status = "raise"
                 THEN NoEffects(chain, native)
                 ELSE NoEffects(Return(chain.value, model_task), native)
    ELSE IF model_task = MULTILABEL_IMAGE_CLASSIFICATION
    THEN IF _is_fastai_model(model)
         THEN NoEffects(Return(WrappedFastAIImageClassificationModel(model, TRUE),
                               model_task), NoNative)
         ELSE NoEffects(Return(model, model_task), NoNative)
    ELSE IF model_task = OBJECT_DETECTION
    THEN LET made == WrappedObjectDetectionModel(model, e) IN
         [out |-> IF made.out.status = "raise"
                  THEN made.out
                  ELSE Return(made.out.value, model_task),
          native |-> NoNative, devices |-> made.devices, evals |-> made.evals]
    ELSE NoEffects(Return(model, model_task), NoNative)

-----------------------------------------------------------------------------
(* The factory specification: one call of _wrap_image_model *)

NoCall == [model |-> None, examples |-> None, model_task |-> "",
           probe |-> [failAt |-> "none", error |-> "", domain |-> ""]]
NoNativeYet == [kind |-> "", site |-> "", error |-> ""]
NoLast == [called |-> FALSE]

\* cuda can only be available when torch was imported
EnvStates ==
    {e \in [imports : Envs, cuda : BOOLEAN] : e.cuda => TorchBound(e.imports)}

Init ==
    /\ env \in EnvStates
    /\ pc = "idle"
    /\ call = NoCall
    /\ ret = [out |-> NoRet, native |-> NoNativeYet]
    /\ adapter = None
    /\ evalCalls = 0
    /\ deviceSelections = 0
    /\ held = None
    /\ lastPredict = NoLast
    /\ lastProba = NoLast

\* A caller invokes _wrap_image_model(model, examples, model_task, is_function).
\* An instance of nn.Module only exists where torch was imported.
WrapImageModel(model, examples, model_task, probe) ==
    /\ pc = "idle"
    /\ model.isModule => TorchBound(env.imports)
    /\ LET r == _wrap_image_model(model, examples, model_task, env, probe) IN
       /\ ret' = [out |-> r.out, native |-> r.native]
       /\ evalCalls' = evalCalls + r.evals
       /\ deviceSelections' = deviceSelections + r.devices
    /\ call' = [model |-> model, examples |-> examples,
                model_task |-> model_task, probe |-> probe]
    /\ pc' = "wrapped"
    /\ UNCHANGED <<env, adapter, held, lastPredict, lastProba>>

Next ==
    \E model \in UserModels, examples \in Examples,
       model_task \in ModelTasks, probe \in ProbeOutcomes :
        WrapImageModel(model, examples, model_task, probe)

Spec == Init /\ [][Next]_vars

-----------------------------------------------------------------------------
(* Properties of the factory (checked under Spec) *)

FactoryCalled == pc = "wrapped"
ImageTasks ==
    {IMAGE_CLASSIFICATION, MULTILABEL_IMAGE_CLASSIFICATION, OBJECT_DETECTION}

\* The (model, task) combinations no adapter rule selects: a task outside the
\* image tasks; multilabel with a model that is no fastai learner; single-label
\* with a model the framework-native step does not apply to, that is no fastai
\* learner, and whose _model_impl holds no AutoML-vision python_model.
NoAdapterRuleMatches ==
    \/ call.model_task \notin ImageTasks
    \/ /\ call.model_task = MULTILABEL_IMAGE_CLASSIFICATION
       /\ ~EndsWith(call.model.typeName, <<"fastai", "learner", "Learner">>)
    \/ /\ call.model_task = IMAGE_CLASSIFICATION
       /\ ~(TorchBound(env.imports) /\ call.model.isModule)
       /\ ~EndsWith(call.model.typeName, <<"fastai", "learner", "Learner">>)
       /\ call.model.impl \in {"noPythonModel", "otherPythonModel"}

\* C1: factory no-op law.  For every (model, task) combination that matches
\* none of the adapter rules, _wrap_image_model raises no error and returns the
\* identical input model, unwrapped, together with the identical input task.
C1_NoOpLaw ==
    (FactoryCalled /\ NoAdapterRuleMatches)
        => ret.out = Return(call.model, call.model_task)

\* C2: detector precedence.  For single-label image classification and a model
\* that is both an nn.Module and matches the fastai suffix, the framework-native
\* path is attempted first: when it succeeds its result is returned, and
\* whenever it fails with a recoverable error the returned adapter is a
\* WrappedFastAIImageClassificationModel.
C2_NativeFirstThenFastai ==
    (/\ FactoryCalled
     /\ call.model_task = IMAGE_CLASSIFICATION
     /\ call.model.isModule
     /\ EndsWith(call.model.typeName, <<"fastai", "learner", "Learner">>))
        => /\ ret.native.kind = "return"
                => /\ ret.out.status = "return"
                   /\ ret.out.value.cls = "WrappedClassificationModel"
           /\ (ret.native.kind = "fallthrough"
               /\ ret.native.error \in {"NameError", "AttributeError"})
                => /\ ret.out.status = "return"
                   /\ ret.out.value.cls = "WrappedFastAIImageClassificationModel"

C4_AnyNativeFailureSwallowed ==
    (/\ FactoryCalled
     /\ call.model_task = IMAGE_CLASSIFICATION
     /\ call.model.impl # "noPythonModel"
     /\ ret.native.error # "")
        => /\ ret.native.kind = "fallthrough"
           /\ ret.out.status = "return"

\* C4 amended: a NameError or AttributeError raised during the
\* framework-native step is not propagated: the factory falls through to the
\* fastai / MLflow / generic-transformer detection and returns normally unless
\* that detection itself raises (the python_model read of a model whose
\* _model_impl has none); any other exception raised in the step propagates
\* to the caller unchanged.
C4_CaughtNativeFailureFallsThrough ==
    (/\ FactoryCalled
     /\ call.model_task = IMAGE_CLASSIFICATION
     /\ ret.native.error # "")
        => IF ret.native.error \in {"NameError", "AttributeError"}
           THEN /\ ret.native.kind = "fallthrough"
                /\ \/ ret.out.status = "return"
                   \/ /\ ret.out = Raise("AttributeError", "python_model")
                      /\ call.model.impl = "noPythonModel"
           ELSE ret.out = Raise(ret.native.error, ret.native.site)

C4_Witness ==
    /\ FactoryCalled
    /\ call.model_task = IMAGE_CLASSIFICATION
    /\ ret.native.error = "AttributeError"
    /\ ret.native.site = "_eval_model"
    /\ ret.out.status = "return"

\* C10: whenever _wrap_image_model returns a fastai, MLflow AutoML-vision,
\* generic-transformer or object-detection adapter, the adapter's _model is
\* the identical model object the caller passed in, on every path, the one
\* where the framework-native step was entered and failed with a NameError or
\* AttributeError included.
C10_AdapterWrapsCallerModel ==
    (/\ FactoryCalled
     /\ ret.out.status = "return"
     /\ ret.out.value.cls \in AdapterClasses)
        => ret.out.value._model = call.model

-----------------------------------------------------------------------------
(* numpy arrays: [shape, data, dtype], data in row-major order *)

RECURSIVE Product(_)
Product(shape) ==
    IF shape = <<>> THEN 1 ELSE Head(shape) * Product(Tail(shape))

RECURSIVE ConcatData(_)
ConcatData(rows) ==
    IF rows = <<>> THEN <<>> ELSE Head(rows).data \o ConcatData(Tail(rows))

\* a 0-d array holding v
Scalar(v, dtype) == [shape |-> <<>>, data |-> <<v>>, dtype |-> dtype]

\* a 1-d array
Vector(vs, dtype) == [shape |-> <<Len(vs)>>, data |-> vs, dtype |-> dtype]

\* np.array(rows) / np.stack(rows) for a non-empty list of equally shaped
\* arrays, and np.array([]) for the empty list
NpArray(rows) ==
    IF rows = <<>>
    THEN [shape |-> <<0>>, data |-> <<>>, dtype |-> "float64"]
    ELSE [shape |-> <<Len(rows)>> \o rows[1].shape,
          data |-> ConcatData(rows),
          dtype |-> rows[1].dtype]

\* a.flatten()
Flatten(a) == [a EXCEPT !.shape = <<Len(a.data)>>]

\* a.reshape(1) of a one-element array
Reshape1(a) == [a EXCEPT !.shape = <<1>>]

\* a.astype(int) of a boolean array
AsTypeInt(a) ==
    [a EXCEPT !.data = [k \in 1..Len(a.data) |-> IF a.data[k] THEN 1 ELSE 0],
              !.dtype = "int64"]

\* len(a) for an array of at least one dimension
NpLen(a) == a.shape[1]

\* a[i - 1]: the i-th entry along the first axis (i counted from 1)
NpRow(a, i) ==
    LET rowShape == Tail(a.shape)
        size == Product(rowShape)
    IN [shape |-> rowShape,
        data |-> SubSeq(a.data, (i - 1) * size + 1, i * size),
        dtype |-> a.dtype]

Max(vs) == CHOOSE m \in {vs[k] : k \in 1..Len(vs)} :
               \A k \in 1..Len(vs) : vs[k] <= m

\* np.argmax of a non-empty vector: the 0-based index of the first maximum
ArgMax(vs) ==
    (CHOOSE k \in 1..Len(vs) :
        /\ vs[k] = Max(vs)
        /\ \A j \in 1..(k - 1) : vs[j] < vs[k]) - 1

-----------------------------------------------------------------------------
(* Datasets and the native models' answers *)

MaxBatch == 3

Images == {"imgA", "imgB", "imgC"}

\* the class scores the native classifiers give each image
ClassProbs(image) ==
    CASE image = "imgA" -> <<70, 30>>
      [] image = "imgB" -> <<20, 80>>
      [] image = "imgC" -> <<50, 50>>

RECURSIVE SeqsUpTo(_, _)
SeqsUpTo(S, n) ==
    IF n = 0 THEN {<<>>}
    ELSE LET shorter == SeqsUpTo(S, n - 1) IN
         shorter \cup {Append(q, x) : q \in shorter, x \in S}

\* a 4-d batch of images, and a single 3-d image
Batch(rows) == [ndim |-> 4, rows |-> rows]
Single(image) == [ndim |-> 3, rows |-> <<image>>]
Batches == {Batch(rows) : rows \in SeqsUpTo(Images, MaxBatch)}
Singles == {Single(image) : image \in Images}

\* What a method call did: its value or error, the native model's inputs in
\* call order, and the number of model.eval() calls it made
MethodReturn(v, invoked) ==
    [status |-> "return", value |-> v, error |-> "", invoked |-> invoked,
     evals |-> 0]
MethodRaise(e, invoked) ==
    [status |-> "raise", value |-> None, error |-> e, invoked |-> invoked,
     evals |-> 0]

-----------------------------------------------------------------------------
(* WrappedTransformerImageClassificationModel: lines 110-135 *)

\* self._model(dataset): a 2-d array, one row of class scores per image
TransformerNativeCall(model, dataset) ==
    [shape |-> <<Len(dataset.rows), Len(ClassProbs("imgA"))>>,
     data |-> ConcatData([k \in 1..Len(dataset.rows) |->
                             Vector(ClassProbs(dataset.rows[k]), "float32")]),
     dtype |-> "float32"]

\* np.argmax(a, axis=1) of a 2-d array
ArgMaxAxis1(a) ==
    [shape |-> <<a.shape[1]>>,
     data |-> [k \in 1..a.shape[1] |-> ArgMax(NpRow(a, k).data)],
     dtype |-> "int64"]

\* lines 117-125
TransformerPredict(self, dataset) ==
    MethodReturn(ArgMaxAxis1(TransformerNativeCall(self._model, dataset)),
                 <<dataset>>)

\* lines 127-135
TransformerPredictProba(self, dataset) ==
    MethodReturn(TransformerNativeCall(self._model, dataset), <<dataset>>)

-----------------------------------------------------------------------------
(* WrappedFastAIImageClassificationModel: lines 138-201 *)

\* self._model.predict(image): (decoded label, discrete prediction,
\* probabilities).  A single-label learner gives a 0-d class index, a
\* multilabel learner a boolean vector with one entry per class.
FastaiNativePredict(model, image) ==
    LET probs == ClassProbs(image) IN
    <<"decoded",
      IF model.learner = "single"
      THEN Scalar(ArgMax(probs), "int64")
      ELSE Vector([k \in 1..Len(probs) |-> probs[k] >= 50], "bool"),
      Vector(probs, "float32")>>

\* lines 173-181: the single-image branch
FastaiPredictOne(self, dataset, index) ==
    LET image == dataset.rows[1]
        p0 == FastaiNativePredict(self._model, image)[index + 1]
        p1 == IF Len(p0.shape) = 0 THEN Reshape1(p0) ELSE p0
        p2 == IF index = 1 /\ p1.dtype = "bool" THEN AsTypeInt(p1) ELSE p1
    IN [value |-> p2, invoked |-> <<image>>]

RECURSIVE ConcatInvoked(_)
ConcatInvoked(results) ==
    IF results = <<>> THEN <<>>
    ELSE Head(results).invoked \o ConcatInvoked(Tail(results))

RECURSIVE _fastai_predict(_, _, _)

\* lines 152-181 with the flatten of line 171 applied whatever index and mode
_fastai_predict_flatten_always(self, dataset, index) ==
    IF dataset.ndim = 4
    THEN LET results == [k \in 1..Len(dataset.rows) |->
                            _fastai_predict(self, Single(dataset.rows[k]), index)]
             predictions == NpArray([k \in 1..Len(results) |-> results[k].value])
         IN [value |-> Flatten(predictions),
             invoked |-> ConcatInvoked(results)]
    ELSE FastaiPredictOne(self, dataset, index)

\* lines 152-181 with each row's prediction put at the front of the list
_fastai_predict_prepend(self, dataset, index) ==
    IF dataset.ndim = 4
    THEN LET n == Len(dataset.rows)
             results == [k \in 1..n |->
                            _fastai_predict(self, Single(dataset.rows[n + 1 - k]),
                                            index)]
             predictions == NpArray([k \in 1..Len(results) |-> results[k].value])
         IN [value |-> IF index = 1 /\ ~self._multilabel
                       THEN Flatten(predictions)
                       ELSE predictions,
             invoked |-> ConcatInvoked(results)]
    ELSE FastaiPredictOne(self, dataset, index)

\* lines 152-181
_fastai_predict(self, dataset, index) ==
    IF dataset.ndim = 4
    THEN LET results == [k \in 1..Len(dataset.rows) |->
                            _fastai_predict(self, Single(dataset.rows[k]), index)]
             predictions == NpArray([k \in 1..Len(results) |-> results[k].value])
         IN [value |-> IF index = 1 /\ ~self._multilabel
                       THEN Flatten(predictions)
                       ELSE predictions,
             invoked |-> ConcatInvoked(results)]
    ELSE FastaiPredictOne(self, dataset, index)

\* lines 183-191
FastaiPredict(self, dataset) ==
    LET r == _fastai_predict(self, dataset, 1) IN MethodReturn(r.value, r.invoked)

\* lines 193-201
FastaiPredictProba(self, dataset) ==
    LET r == _fastai_predict(self, dataset, 2) IN MethodReturn(r.value, r.invoked)

-----------------------------------------------------------------------------
(* WrappedMlflowAutomlImagesClassificationModel: lines 204-246 *)

\* self._model.predict(dataset): a table whose probs column holds, per input
\* row and in input order, the vector of class probabilities
MlflowNativePredict(model, dataset) ==
    [probs |-> [k \in 1..Len(dataset.rows) |-> ClassProbs(dataset.rows[k])]]

\* lines 215-224
_mlflow_predict(self, dataset) == MlflowNativePredict(self._model, dataset)

\* the 0-based index of the first minimum
ArgMin(vs) ==
    (CHOOSE k \in 1..Len(vs) :
        /\ \A j \in 1..Len(vs) : vs[k] <= vs[j]
        /\ \A j \in 1..(k - 1) : vs[j] > vs[k]) - 1

\* lines 226-235 with np.argmin in place of np.argmax
MlflowPredictArgMin(self, dataset) ==
    LET predictions == _mlflow_predict(self, dataset) IN
    MethodReturn(
        Vector([k \in 1..Len(predictions.probs) |-> ArgMin(predictions.probs[k])],
               "int64"),
        <<dataset>>)

\* lines 226-235
MlflowPredict(self, dataset) ==
    LET predictions == _mlflow_predict(self, dataset) IN
    MethodReturn(
        Vector([k \in 1..Len(predictions.probs) |-> ArgMax(predictions.probs[k])],
               "int64"),
        <<dataset>>)

\* lines 237-246: np.stack raises ValueError on an empty list of arrays
MlflowPredictProba(self, dataset) ==
    LET predictions == _mlflow_predict(self, dataset) IN
    IF Len(predictions.probs) = 0
    THEN MethodRaise("ValueError", <<dataset>>)
    ELSE MethodReturn(
             NpArray([k \in 1..Len(predictions.probs) |->
                         Vector(predictions.probs[k], "float64")]),
             <<dataset>>)

-----------------------------------------------------------------------------
(* WrappedObjectDetectionModel: lines 249-308 *)

\* line 264 and line 300: the default detection_error_threshold of predict
\* (0.1) and of predict_proba (0.05), in percent
PREDICT_DEFAULT_THRESHOLD == 10
PREDICT_PROBA_DEFAULT_THRESHOLD == 5

Box(x1, y1, x2, y2) == <<x1, y1, x2, y2>>
Detection(label, box, score) == [label |-> label, box |-> box, score |-> score]

\* self._model(tensor)[0]: the detections of the one image in the tensor, in
\* the order the native model lists them.  imgA: two boxes overlapping by
\* 10/190; imgB: two boxes overlapping by 50/150, the lower score first, and a
\* third, disjoint box; imgC: nothing detected.
DetectorNativeCall(model, tensor) ==
    CASE tensor.image = "imgA" ->
            <<Detection(1, Box(0, 0, 10, 10), 90),
              Detection(2, Box(9, 0, 19, 10), 80)>>
      [] tensor.image = "imgB" ->
            <<Detection(1, Box(0, 0, 10, 10), 60),
              Detection(1, Box(5, 0, 15, 10), 95),
              Detection(3, Box(30, 30, 40, 40), 70)>>
      [] tensor.image = "imgC" -> <<>>

\* ToTensor()(image).to(device).unsqueeze(0)
ToDeviceTensor(image, device) ==
    [image |-> image, device |-> device, batched |-> TRUE]

Min2(a, b) == IF a < b THEN a ELSE b
Max2(a, b) == IF a > b THEN a ELSE b
Area(b) == (b[3] - b[1]) * (b[4] - b[2])
Intersection(a, b) ==
    Max2(0, Min2(a[3], b[3]) - Max2(a[1], b[1]))
    * Max2(0, Min2(a[4], b[4]) - Max2(a[2], b[2]))

\* IoU(a, b) > threshold / 100
OverlapExceeds(a, b, threshold) ==
    LET inter == Intersection(a, b)
        union == Area(a) + Area(b) - inter
    IN inter * 100 > threshold * union

\* the indices of dets in decreasing order of score
RECURSIVE ByScoreDescending(_, _)
ByScoreDescending(dets, left) ==
    IF left = {} THEN <<>>
    ELSE LET best == CHOOSE k \in left :
                        \A j \in left :
                            \/ dets[j].score < dets[k].score
                            \/ (dets[j].score = dets[k].score /\ k <= j)
         IN <<best>> \o ByScoreDescending(dets, left \ {best})

RECURSIVE NmsGreedy(_, _, _, _)
NmsGreedy(dets, order, kept, threshold) ==
    IF order = <<>> THEN kept
    ELSE LET k == Head(order)
             suppressed == \E j \in 1..Len(kept) :
                              OverlapExceeds(dets[kept[j]].box, dets[k].box,
                                             threshold)
         IN NmsGreedy(dets, Tail(order),
                      IF suppressed THEN kept ELSE Append(kept, k), threshold)

\* torchvision.ops.nms(boxes, scores, iou_threshold): the indices kept, in
\* decreasing order of score; a box is dropped when its IoU with a kept box of
\* higher score exceeds the threshold
Nms(dets, threshold) ==
    NmsGreedy(dets, ByScoreDescending(dets, 1..Len(dets)), <<>>, threshold)

\* lines 280-296 for one image: the rows [label, x1, y1, x2, y2, score] of the
\* detections nms keeps
ImagePredictions(prediction, detection_error_threshold) ==
    LET keep == Nms(prediction, detection_error_threshold) IN
    [k \in 1..Len(keep) |->
        <<prediction[keep[k]].label>> \o prediction[keep[k]].box
            \o <<prediction[keep[k]].score>>]

\* lines 264-298 with self._model.eval() called at the start of every predict
ObjectDetectionPredictEvalEachCall(self, dataset, detection_error_threshold, e) ==
    IF Len(dataset.rows) > 0 /\ ~TorchvisionBound(e.imports)
    THEN [MethodRaise("NameError", <<>>) EXCEPT !.evals = 1]
    ELSE LET tensors == [k \in 1..Len(dataset.rows) |->
                            ToDeviceTensor(dataset.rows[k], self._device)]
         IN [MethodReturn(
                 [k \in 1..Len(tensors) |->
                     ImagePredictions(DetectorNativeCall(self._model, tensors[k]),
                                      detection_error_threshold)],
                 tensors) EXCEPT !.evals = 1]

\* lines 264-298.  ToTensor is unbound when torchvision failed to import: the
\* first image then raises NameError before the native model is called.
ObjectDetectionPredict(self, dataset, detection_error_threshold, e) ==
    IF Len(dataset.rows) > 0 /\ ~TorchvisionBound(e.imports)
    THEN MethodRaise("NameError", <<>>)
    ELSE LET tensors == [k \in 1..Len(dataset.rows) |->
                            ToDeviceTensor(dataset.rows[k], self._device)]
         IN MethodReturn(
                [k \in 1..Len(tensors) |->
                    ImagePredictions(DetectorNativeCall(self._model, tensors[k]),
                                     detection_error_threshold)],
                tensors)

\* lines 300-308
ObjectDetectionPredictProba(self, dataset, detection_error_threshold, e) ==
    LET predictions ==
            ObjectDetectionPredict(self, dataset, detection_error_threshold, e)
    IN IF predictions.status = "raise"
       THEN predictions
       ELSE MethodReturn(
                [i \in 1..Len(predictions.value) |->
                    [k \in 1..Len(predictions.value[i]) |->
                        predictions.value[i][k][Len(predictions.value[i][k])]]],
                predictions.invoked)

-----------------------------------------------------------------------------
(* The adapter specification: a caller constructs one adapter and then calls
   predict and predict_proba on it, any number of times *)

\* The models handed to the adapter constructors.  The adapters read none of
\* typeName, isModule and impl.
AdapterModels ==
    {m \in UserModels :
        /\ m.typeName = PlainModelType
        /\ ~m.isModule
        /\ m.impl = "absent"
        /\ m.hasEval = (m.learner = "single")}

\* detection_error_threshold as the caller passes it, or leaves it out
NotPassed == [passed |-> FALSE, value |-> 0]
Passed(t) == [passed |-> TRUE, value |-> t]
ThresholdArgs ==
    {NotPassed, Passed(PREDICT_PROBA_DEFAULT_THRESHOLD),
     Passed(PREDICT_DEFAULT_THRESHOLD)}

ArgOr(arg, default) == IF arg.passed THEN arg.value ELSE default

\* the constructor call cls(model) or, for fastai, cls(model, multilabel)
ConstructAdapter(cls, model, multilabel, e) ==
    CASE cls = "WrappedObjectDetectionModel" ->
            WrappedObjectDetectionModel(model, e)
      [] cls = "WrappedFastAIImageClassificationModel" ->
            [out |-> Return(WrappedFastAIImageClassificationModel(model, multilabel), ""),
             devices |-> 0, evals |-> 0]
      [] cls = "WrappedMlflowAutomlImagesClassificationModel" ->
            [out |-> Return(WrappedMlflowAutomlImagesClassificationModel(model), ""),
             devices |-> 0, evals |-> 0]
      [] cls = "WrappedTransformerImageClassificationModel" ->
            [out |-> Return(WrappedTransformerImageClassificationModel(model), ""),
             devices |-> 0, evals |-> 0]

\* self.predict(dataset[, detection_error_threshold])
CallPredict(self, dataset, arg, e) ==
    CASE self.cls = "WrappedObjectDetectionModel" ->
            ObjectDetectionPredict(self, dataset,
                                   ArgOr(arg, PREDICT_DEFAULT_THRESHOLD), e)
      [] self.cls = "WrappedFastAIImageClassificationModel" ->
            FastaiPredict(self, dataset)
      [] self.cls = "WrappedMlflowAutomlImagesClassificationModel" ->
            MlflowPredict(self, dataset)
      [] self.cls = "WrappedTransformerImageClassificationModel" ->
            TransformerPredict(self, dataset)

\* self.predict_proba(dataset[, detection_error_threshold])
CallPredictProba(self, dataset, arg, e) ==
    CASE self.cls = "WrappedObjectDetectionModel" ->
            ObjectDetectionPredictProba(self, dataset,
                                        ArgOr(arg, PREDICT_PROBA_DEFAULT_THRESHOLD), e)
      [] self.cls = "WrappedFastAIImageClassificationModel" ->
            FastaiPredictProba(self, dataset)
      [] self.cls = "WrappedMlflowAutomlImagesClassificationModel" ->
            MlflowPredictProba(self, dataset)
      [] self.cls = "WrappedTransformerImageClassificationModel" ->
            TransformerPredictProba(self, dataset)

\* the datasets and threshold arguments a caller passes to an adapter: only
\* the fastai adapter takes a single 3-d image, only the object-detection
\* adapter takes a threshold
DatasetsFor(self) ==
    IF self.cls = "WrappedFastAIImageClassificationModel"
    THEN Batches \cup Singles
    ELSE Batches
ArgsFor(self) ==
    IF self.cls = "WrappedObjectDetectionModel" THEN ThresholdArgs ELSE {NotPassed}

Construct(cls, model, multilabel) ==
    /\ pc = "idle"
    /\ multilabel => cls = "WrappedFastAIImageClassificationModel"
    /\ LET made == ConstructAdapter(cls, model, multilabel, env) IN
       /\ adapter' = made.out.value
       /\ pc' = IF made.out.status = "return" THEN "constructed" ELSE "failed"
       /\ evalCalls' = evalCalls + made.evals
       /\ deviceSelections' = deviceSelections + made.devices
    /\ UNCHANGED <<env, call, ret, held, lastPredict, lastProba>>

\* the caller takes up another dataset
TakeDataset(d) ==
    /\ pc = "constructed"
    /\ d \in DatasetsFor(adapter)
    /\ held' = d
    /\ lastPredict' = NoLast
    /\ lastProba' = NoLast
    /\ UNCHANGED <<env, pc, call, ret, adapter, evalCalls, deviceSelections>>

\* adapter.predict(held) or adapter.predict(held, arg)
Predict(arg) ==
    /\ pc = "constructed"
    /\ held # None
    /\ arg \in ArgsFor(adapter)
    /\ LET r == CallPredict(adapter, held, arg, env) IN
       /\ lastPredict' = [called |-> TRUE, arg |-> arg, out |-> r]
       /\ evalCalls' = evalCalls + r.evals
    /\ UNCHANGED <<env, pc, call, ret, adapter, deviceSelections, held,
                   lastProba>>

\* adapter.predict_proba(held) or adapter.predict_proba(held, arg)
PredictProba(arg) ==
    /\ pc = "constructed"
    /\ held # None
    /\ arg \in ArgsFor(adapter)
    /\ LET r == CallPredictProba(adapter, held, arg, env) IN
       /\ lastProba' = [called |-> TRUE, arg |-> arg, out |-> r]
       /\ evalCalls' = evalCalls + r.evals
    /\ UNCHANGED <<env, pc, call, ret, adapter, deviceSelections, held,
                   lastPredict>>

NextAdapters ==
    \/ \E cls \in AdapterClasses, model \in AdapterModels, multilabel \in BOOLEAN :
          Construct(cls, model, multilabel)
    \/ \E d \in Batches \cup Singles : TakeDataset(d)
    \/ \E arg \in ThresholdArgs : Predict(arg)
    \/ \E arg \in ThresholdArgs : PredictProba(arg)

SpecAdapters == Init /\ [][NextAdapters]_vars

-----------------------------------------------------------------------------
(* Properties of the adapters (checked under SpecAdapters) *)

Constructed(cls) == pc = "constructed" /\ adapter.cls = cls
HoldsBatch == held # None /\ held.ndim = 4
PredictReturned == lastPredict.called /\ lastPredict.out.status = "return"
ProbaReturned == lastProba.called /\ lastProba.out.status = "return"

\* len(result): of the list the object-detection adapter returns, of the
\* array the other adapters return
ResultLen(value) ==
    IF adapter.cls = "WrappedObjectDetectionModel" THEN Len(value) ELSE NpLen(value)

\* the number of elements of the native per-image discrete prediction of the
\* wrapped fastai learner
LabelElements ==
    IF adapter._model.learner = "single" THEN 1 ELSE Len(ClassProbs("imgA"))

\* C5 as stated: for every adapter kind and every batch of N images, predict
\* and predict_proba return N entries, whatever the shape of the native
\* per-image output (stated for the calls that return).
C5_LengthAsStated ==
    (pc = "constructed" /\ HoldsBatch)
        => /\ PredictReturned
                => ResultLen(lastPredict.out.value) = Len(held.rows)
           /\ ProbaReturned
                => ResultLen(lastProba.out.value) = Len(held.rows)

\* C5 amended: for every adapter kind and every batch of N images, a predict
\* or predict_proba call that returns has N entries, except predict of the
\* fastai adapter in single-label mode, which has N times the number of
\* elements of the native per-image discrete prediction (N when that is a
\* scalar).  The only calls that raise are predict_proba of the MLflow adapter
\* on an empty batch and the object-detection methods on a non-empty batch
\* when torchvision is missing.
C5_Length ==
    (pc = "constructed" /\ HoldsBatch)
        => /\ lastPredict.called
                => IF lastPredict.out.status = "raise"
                   THEN /\ adapter.cls = "WrappedObjectDetectionModel"
                        /\ env.imports # "all"
                        /\ Len(held.rows) > 0
                   ELSE ResultLen(lastPredict.out.value) =
                           IF /\ adapter.cls = "WrappedFastAIImageClassificationModel"
                              /\ ~adapter._multilabel
                           THEN Len(held.rows) * LabelElements
                           ELSE Len(held.rows)
           /\ lastProba.called
                => IF lastProba.out.status = "raise"
                   THEN \/ /\ adapter.cls = "WrappedObjectDetectionModel"
                           /\ env.imports # "all"
                           /\ Len(held.rows) > 0
                        \/ /\ adapter.cls = "WrappedMlflowAutomlImagesClassificationModel"
                           /\ Len(held.rows) = 0
                   ELSE ResultLen(lastProba.out.value) = Len(held.rows)

C5_Witness ==
    /\ Constructed("WrappedFastAIImageClassificationModel")
    /\ ~adapter._multilabel
    /\ adapter._model.learner = "single"
    /\ HoldsBatch
    /\ Len(held.rows) = 2
    /\ PredictReturned
    /\ ProbaReturned
    /\ lastPredict.out.value.shape = <<2>>

\* the stack, in input order, of a fastai method applied to each image of the
\* held batch on its own
StackOfSinglePredicts ==
    NpArray([i \in 1..Len(held.rows) |->
                CallPredict(adapter, Single(held.rows[i]), NotPassed, env).value])
StackOfSinglePredictProbas ==
    NpArray([i \in 1..Len(held.rows) |->
                CallPredictProba(adapter, Single(held.rows[i]), NotPassed, env).value])

\* C6 as stated: for the fastai adapter and every 4-d batch of N images, in
\* both modes, predict(batch) has N entries and its i-th entry holds exactly
\* the values of predict applied to image i on its own.
C6_BatchingAsStated ==
    (Constructed("WrappedFastAIImageClassificationModel") /\ HoldsBatch
     /\ PredictReturned)
        => /\ lastPredict.out.value.shape[1] = Len(held.rows)
           /\ \A i \in 1..Len(held.rows) :
                 NpRow(lastPredict.out.value, i).data =
                     CallPredict(adapter, Single(held.rows[i]), NotPassed, env).value.data

\* C6 amended: for the fastai adapter and every 4-d batch, predict(batch)
\* equals the stack, in input order, of predict applied to each image on its
\* own in multilabel mode, and that stack flattened in single-label mode; the
\* i-th entry of the batch result holds the values of predict on image i in
\* multilabel mode, and in single-label mode when the native per-image
\* discrete prediction has one element; predict_proba(batch) equals the stack
\* of the single-image predict_proba results in both modes.
C6_Batching ==
    (Constructed("WrappedFastAIImageClassificationModel") /\ HoldsBatch)
        => /\ PredictReturned
                => /\ lastPredict.out.value =
                        IF adapter._multilabel
                        THEN StackOfSinglePredicts
                        ELSE [StackOfSinglePredicts EXCEPT
                                 !.shape = <<Len(held.rows) * LabelElements>>]
                   /\ (adapter._multilabel \/ LabelElements = 1)
                        => /\ lastPredict.out.value.shape[1] = Len(held.rows)
                           /\ \A i \in 1..Len(held.rows) :
                                 NpRow(lastPredict.out.value, i).data =
                                     CallPredict(adapter, Single(held.rows[i]),
                                                 NotPassed, env).value.data
           /\ ProbaReturned => lastProba.out.value = StackOfSinglePredictProbas

C6_Witness ==
    /\ Constructed("WrappedFastAIImageClassificationModel")
    /\ adapter._multilabel
    /\ adapter._model.learner = "multi"
    /\ HoldsBatch
    /\ held.rows = <<"imgB", "imgA", "imgC">>
    /\ PredictReturned
    /\ lastPredict.out.value.shape = <<3, 2>>
    /\ lastPredict.out.value.data = <<0, 1, 1, 0, 1, 1>>

\* C7: object-detection adapter.  For every batch and every image index i,
\* predict_proba(batch)[i] is exactly the list of the trailing score entries
\* of the rows of predict(batch)[i], both called on the same batch with their
\* own default arguments.
C7_ProbaIsScoreColumn ==
    (/\ Constructed("WrappedObjectDetectionModel")
     /\ HoldsBatch
     /\ PredictReturned /\ ~lastPredict.arg.passed
     /\ ProbaReturned /\ ~lastProba.arg.passed)
        => /\ Len(lastProba.out.value) = Len(lastPredict.out.value)
           /\ \A i \in 1..Len(lastPredict.out.value) :
                 lastProba.out.value[i] =
                     [k \in 1..Len(lastPredict.out.value[i]) |->
                         lastPredict.out.value[i][k][6]]

\* C8: MLflow AutoML-vision adapter.  For every batch and every row index i,
\* predict(batch)[i] is the arg-max index (the first maximum) of
\* predict_proba(batch)[i], and row i of both outputs belongs to row i of the
\* native model's probs column.
C8_PredictIsArgMaxOfProba ==
    (/\ Constructed("WrappedMlflowAutomlImagesClassificationModel")
     /\ HoldsBatch
     /\ PredictReturned
     /\ ProbaReturned)
        => /\ lastPredict.out.value.shape = <<Len(held.rows)>>
           /\ lastProba.out.value.shape[1] = Len(held.rows)
           /\ \A i \in 1..Len(held.rows) :
                 LET row == NpRow(lastProba.out.value, i).data
                     c == lastPredict.out.value.data[i] + 1
                 IN /\ row = ClassProbs(held.rows[i])
                    /\ c \in 1..Len(row)
                    /\ \A j \in 1..Len(row) : row[j] <= row[c]
                    /\ \A j \in 1..(c - 1) : row[j] < row[c]

C8_Witness ==
    /\ Constructed("WrappedMlflowAutomlImagesClassificationModel")
    /\ HoldsBatch
    /\ held.rows = <<"imgB", "imgC", "imgA">>
    /\ PredictReturned
    /\ ProbaReturned
    /\ lastPredict.out.value.data = <<1, 0, 0>>

\* the tensors the native detector is called on for the held batch, in order
ExpectedInvocations ==
    [k \in 1..Len(held.rows) |->
        [image |-> held.rows[k],
         device |-> IF env.cuda THEN "cuda" ELSE "cpu",
         batched |-> TRUE]]

\* C9: object-detection adapter.  model.eval() is invoked and the device is
\* selected exactly once, at construction and before any native inference
\* call; over any sequence of later predict / predict_proba calls eval() is
\* not invoked again and the device stays the one selected, and every predict
\* call (one made by predict_proba included) invokes the native model exactly
\* once per input image, in input order.
C9_EvalAndDeviceOnce ==
    /\ (lastPredict.called \/ lastProba.called) => pc = "constructed"
    /\ pc = "idle" => (evalCalls = 0 /\ deviceSelections = 0)
    /\ Constructed("WrappedObjectDetectionModel")
        => /\ evalCalls = 1
           /\ deviceSelections = 1
           /\ adapter._device = IF env.cuda THEN "cuda" ELSE "cpu"
           /\ PredictReturned => lastPredict.out.invoked = ExpectedInvocations
           /\ ProbaReturned => lastProba.out.invoked = ExpectedInvocations
           /\ (lastPredict.called /\ ~PredictReturned)
                => lastPredict.out.invoked = <<>>
           /\ (lastProba.called /\ ~ProbaReturned)
                => lastProba.out.invoked = <<>>

C9_Witness ==
    /\ Constructed("WrappedObjectDetectionModel")
    /\ HoldsBatch
    /\ Len(held.rows) = 3
    /\ PredictReturned
    /\ ProbaReturned
    /\ Len(lastProba.out.invoked) = 3
    /\ evalCalls = 1

====
